---- MODULE Spec2Model ----
(***************************************************************************)
(* Model of scripts/fetch_telegram_updates.py: TelegramFetcher.            *)
(*                                                                         *)
(* One ingestion run = constructor (checkpoint load) + run(): fetch a      *)
(* batch from Telegram, filter, normalise, store the photo, append each    *)
(* kept message to data/pending-messages.json, save the checkpoint         *)
(* data/last-update-id.json.  The GitHub contents store is modelled at the *)
(* granularity of one HTTP round trip per step, so that another writer of  *)
(* the queue document can interleave.                                      *)
(***************************************************************************)
EXTENDS Integers, Sequences, FiniteSets, TLC

\* ------------------------------------------------------------------ bounds
MaxRuns == 2        \* ingestion runs (scheduled invocations) explored
MaxBatch == 3       \* updates returned by one getUpdates call
MaxExternal == 1    \* records another writer adds to the queue document

\* ------------------------------------------------------------- model values
\* A file of the repository: absent (GET answers 404), or present with its
\* decoded JSON body.  _github_get_file's None is NoDoc.
NoDoc == [exists |-> FALSE]
QueueFile(msgs) == [exists |-> TRUE, messages |-> msgs]
CkptFile(v) == [exists |-> TRUE, last_update_id |-> v]
\* A file whose body is not the JSON the program expects (json.loads raises).
GarbageFile == [exists |-> TRUE, garbage |-> TRUE]
\* json.loads(content) succeeds on the checkpoint file.
Parses(doc) == doc.exists /\ "last_update_id" \in DOMAIN doc
\* The blob sha GitHub reports for a file: a hash of its content.
NoSha == [present |-> FALSE]
BlobSha(doc) == [present |-> TRUE, blob |-> doc]
\* message_data before process_message has built a record.
NoMessage == [id |-> <<>>]

\* ----------------------------------------------------- the Telegram source
\* The updates waiting at the Telegram Bot API, in update_id order.  Absent
\* text / caption are "" and an absent photo is <<>> (all falsy in Python).
\* has_from says whether the message carries its "from" object (Telegram
\* omits it for some messages); is_bot is that object's flag when present.
Updates ==
  << [update_id |-> 101, message_id |-> 11, date |-> 1001, has_from |-> TRUE,
      is_bot |-> FALSE, text |-> "Hello #blogpost", caption |-> "",
      photo |-> <<>>],
     [update_id |-> 102, message_id |-> 12, date |-> 1002, has_from |-> TRUE,
      is_bot |-> TRUE, text |-> "ignored", caption |-> "", photo |-> <<>>],
     [update_id |-> 103, message_id |-> 13, date |-> 1003, has_from |-> TRUE,
      is_bot |-> FALSE, text |-> "", caption |-> "pic",
      photo |-> <<"small", "large">>],
     [update_id |-> 104, message_id |-> 14, date |-> 1004, has_from |-> FALSE,
      is_bot |-> FALSE, text |-> "forwarded", caption |-> "", photo |-> <<>>],
     [update_id |-> 105, message_id |-> 15, date |-> 1005, has_from |-> TRUE,
      is_bot |-> FALSE, text |-> "", caption |-> "", photo |-> <<>>] >>

\* Position of the first waiting update whose id is >= offset (Len+1 if none).
FirstAt(offset) ==
  LET later == {k \in 1..Len(Updates) : Updates[k].update_id >= offset}
  IN  IF later = {} THEN Len(Updates) + 1
      ELSE CHOOSE k \in later : \A j \in later : k <= j

\* getUpdates(offset): the batches Telegram may answer with: the waiting
\* updates from `offset` on, in order, cut at any length up to MaxBatch.
Batches(offset) ==
  LET first == FirstAt(offset)
  IN  {SubSeq(Updates, first, first + n - 1) :
         n \in 0..(IF Len(Updates) - first + 1 < MaxBatch
                   THEN Len(Updates) - first + 1 ELSE MaxBatch)}

\* ------------------------------------------------------------------- state
VARIABLES
  queueDoc,        \* data/pending-messages.json: NoDoc or QueueFile(messages)
  ckptDoc,         \* data/last-update-id.json: NoDoc, GarbageFile or
                   \* CkptFile(last_update_id)
  imageStore,      \* paths under static/images/ that exist in the repository
  clock,           \* wall clock (datetime.utcnow) of the current run
  runs,            \* number of runs started so far
  pc,              \* position of the current run
  last_update_id,  \* self.last_update_id, set by the constructor
  updates,         \* the batch returned by fetch_updates
  i,               \* loop index into updates (1-based)
  last_id,         \* run()'s local last_id
  message_data,    \* record built by process_message for updates[i]
  pending_data,    \* add_to_pending_queue's list after the append
  sha,             \* _github_create_or_update_file's local sha
  processed,       \* update ids counted in processed_count, in order
  wlog,            \* history: paths this run has written, in order
  imgFailed,       \* history: update ids whose photo this run did not store
  faults,          \* history: a GitHub request of this run did not succeed
                   \* and the program saw something else than the stored file
  fetchErr,        \* history: getUpdates of this run raised
  errored,         \* history: update ids whose processing raised into the
                   \* per-message except of run()
  stored,          \* history: update ids whose record this run has written
                   \* into the queue document
  external         \* history: per write by another writer, whether it fell
                   \* between a run's read of the queue and its PUT

vars == << queueDoc, ckptDoc, imageStore, clock, runs, pc, last_update_id,
           updates, i, last_id, message_data, pending_data, sha, processed,
           wlog, imgFailed, faults, fetchErr, errored, stored, external >>

store == << queueDoc, ckptDoc, imageStore >>
hist == << wlog, imgFailed, faults, fetchErr, errored, stored >>
locals == << last_update_id, updates, i, last_id, message_data, pending_data,
             sha, processed >>

processed_count == Len(processed)

\* The repository before the first scheduled run: no queue, no checkpoint,
\* no images.
Init ==
  /\ queueDoc = NoDoc
  /\ ckptDoc = NoDoc
  /\ imageStore = {}
  /\ clock = 0
  /\ runs = 0
  /\ pc = "idle"
  /\ last_update_id = 0
  /\ updates = <<>>
  /\ i = 1
  /\ last_id = 0
  /\ message_data = NoMessage
  /\ pending_data = <<>>
  /\ sha = NoSha
  /\ processed = <<>>
  /\ wlog = <<>>
  /\ imgFailed = {}
  /\ faults = FALSE
  /\ fetchErr = FALSE
  /\ errored = {}
  /\ stored = {}
  /\ external = <<>>

\* ------------------------------------------------------ GitHub contents API
\* _github_get_file: the decoded content, or None when the GET answers 404
\* or raises (any exception is caught and logged).
_github_get_file(doc, fail) == IF fail \/ ~doc.exists THEN NoDoc ELSE doc

\* _github_create_or_update_file, first half: GET the current sha; an
\* exception or a 404 leaves sha = None.
github_current_sha(doc, fail) ==
  IF fail \/ ~doc.exists THEN NoSha ELSE BlobSha(doc)

\* What the network and GitHub may do with a PUT: serve it, fail it with an
\* error (5xx, timeout), or answer 404.
PutOutcomes == {"ok", "error", "not_found"}

\* _github_request("PUT", ...) as used by _github_create_or_update_file and
\* by the image upload: a served PUT is "stored" when the sha sent matches
\* the file (no sha: the file must not exist yet) and raises otherwise
\* (409 / 422); an error raises; a 404 makes _github_request return None
\* without raising, so the caller goes on as after a success.
github_put(doc, s, outcome) ==
  IF outcome = "not_found" THEN "none"
  ELSE IF outcome = "ok" /\ (IF doc.exists THEN s = BlobSha(doc) ELSE s = NoSha)
       THEN "stored"
       ELSE "raised"

\* ------------------------------------------------------- checkpoint manager
\* _load_last_update_id that answers from the stored file even when the GET
\* did not succeed.
_load_last_update_id_IgnoresFailure(doc, fail) ==
  IF Parses(doc) THEN doc.last_update_id ELSE 0

\* _load_last_update_id: the stored value, or 0 when the file is absent,
\* the GET fails, or the body does not parse (every exception is caught).
_load_last_update_id(doc, fail) ==
  LET data == _github_get_file(doc, fail)
  IN  IF Parses(data) THEN data.last_update_id ELSE 0

\* ----------------------------------------------------------- normalisation
\* ShouldSkip without the no-content test.
ShouldSkip_KeepsEmpty(m) == m.is_bot

\* ShouldSkip without the is_bot test.
ShouldSkip_KeepsBots(m) == m.text = "" /\ m.photo = <<>> /\ m.caption = ""

\* run()'s skip predicate: bot authors, and messages with no content.
ShouldSkip(m) ==
  \/ m.is_bot
  \/ (m.text = "" /\ m.photo = <<>> /\ m.caption = "")

\* f"msg_{message['date']}_{message['message_id']}"
MessageId(m) == << "msg", m.date, m.message_id >>

\* Content that ignores the text and takes the caption only.
Content_CaptionOnly(m) == m.caption

\* message.get("text") or message.get("caption", "")
Content(m) == IF m.text # "" THEN m.text ELSE m.caption

\* static/images/{message_id}/{message_id}_{file_id}.jpg
ImagePath(mid, file_id) == << "static/images", mid, file_id >>

\* Outcomes of _process_image's three requests: all served; getFile fails
\* (or has no file_path); the download fails; the upload raises; the upload
\* is answered 404.
ImageOutcomes ==
  {"ok", "getfile_fail", "download_fail", "upload_fail", "upload_not_found"}

\* _process_image: what is appended to message_data["images"]: the image
\* info of the largest photo (photo[-1]) when getFile and the download
\* succeed and the upload does not raise, nothing otherwise.
_process_image(m, mid, outcome) ==
  IF outcome \in {"ok", "upload_not_found"}
  THEN << [filename |-> << mid, m.photo[Len(m.photo)] >>,
           path |-> ImagePath(mid, m.photo[Len(m.photo)]),
           caption |-> m.caption,
           file_id |-> m.photo[Len(m.photo)]] >>
  ELSE <<>>

\* process_message: the record built from a raw message at wall-clock `now`.
process_message(m, now, outcome) ==
  [id |-> MessageId(m),
   telegram_message_id |-> m.message_id,
   content |-> Content(m),
   images |-> IF m.photo # <<>> THEN _process_image(m, MessageId(m), outcome)
              ELSE <<>>,
   timestamp |-> << "iso", m.date >>,
   status |-> "pending",
   tags |-> <<>>,
   created_at |-> << "iso", now >>]

\* A record some other writer (the approval workflow, a human edit) adds.
ExtRecord(k) ==
  [id |-> << "ext", k >>, telegram_message_id |-> 0, content |-> "external",
   images |-> <<>>, timestamp |-> << "iso", 0 >>, status |-> "pending",
   tags |-> <<>>, created_at |-> << "iso", 0 >>]

Messages(doc) == IF doc.exists THEN doc.messages ELSE <<>>

\* ----------------------------------------------------------------- actions
InRun == pc \in {"fetch", "loop", "q_read", "q_sha", "q_put", "c_sha", "c_put"}
Terminal == pc \in {"idle", "done", "failed", "crashed"}

\* run(): "if not updates: return" -- an empty batch ends the run at once,
\* anything else enters the loop.
AfterFetch_SavesCheckpoint(batch) == IF batch = <<>> THEN "c_sha" ELSE "loop"

AfterFetch(batch) == IF batch = <<>> THEN "done" ELSE "loop"

\* TelegramFetcher.__init__: a new process starts and loads the checkpoint.
Load ==
  /\ Terminal
  /\ runs < MaxRuns
  /\ \E fail \in BOOLEAN :
       /\ last_update_id' = _load_last_update_id(ckptDoc, fail)
       /\ faults' = (fail /\ Parses(ckptDoc))
  /\ fetchErr' = FALSE
  /\ runs' = runs + 1
  /\ clock' = clock + 1
  /\ pc' = "fetch"
  /\ updates' = <<>>
  /\ i' = 1
  /\ last_id' = 0
  /\ message_data' = NoMessage
  /\ pending_data' = <<>>
  /\ sha' = NoSha
  /\ processed' = <<>>
  /\ wlog' = <<>>
  /\ imgFailed' = {}
  /\ errored' = {}
  /\ stored' = {}
  /\ UNCHANGED << store, external >>

\* run(): fetch_updates succeeds.  An empty batch returns at once.
Fetch ==
  /\ pc = "fetch"
  /\ \E batch \in Batches(last_update_id + 1) :
       /\ updates' = batch
       /\ pc' = AfterFetch(batch)
  /\ last_id' = last_update_id
  /\ UNCHANGED << store, clock, runs, last_update_id, i, message_data,
                  pending_data, sha, processed, hist, external >>

\* FetchFail with the exception swallowed: the run ends with status 0.
FetchFail_Swallowed ==
  /\ pc = "fetch"
  /\ pc' = "done"
  /\ fetchErr' = TRUE
  /\ UNCHANGED << store, clock, runs, locals, wlog, imgFailed, faults,
                  errored, stored, external >>

\* run(): getUpdates raises (network / HTTP / "ok": false): sys.exit(1).
FetchFail ==
  /\ pc = "fetch"
  /\ pc' = "failed"
  /\ fetchErr' = TRUE
  /\ UNCHANGED << store, clock, runs, locals, wlog, imgFailed, faults,
                  errored, stored, external >>

\* SkipMessage that also saves the checkpoint, update by update.
SkipMessage_SavesCheckpoint ==
  /\ pc = "loop"
  /\ i <= Len(updates)
  /\ ShouldSkip(updates[i])
  /\ last_id' = updates[i].update_id
  /\ i' = i + 1
  /\ ckptDoc' = CkptFile(updates[i].update_id)
  /\ wlog' = Append(wlog, "ckpt")
  /\ UNCHANGED << queueDoc, imageStore, clock, runs, pc, last_update_id,
                  updates, message_data, pending_data, sha, processed,
                  imgFailed, faults, fetchErr, errored, stored, external >>

\* run() loop body for a skipped update: only last_id moves.
SkipMessage ==
  /\ pc = "loop"
  /\ i <= Len(updates)
  /\ ShouldSkip(updates[i])
  /\ last_id' = updates[i].update_id
  /\ i' = i + 1
  /\ UNCHANGED << store, clock, runs, pc, last_update_id, updates,
                  message_data, pending_data, sha, processed, hist,
                  external >>

\* NormalizeFails without the per-message try: the exception reaches run()'s
\* outer handler and the process exits with status 1.
NormalizeFails_Aborts ==
  /\ pc = "loop"
  /\ i <= Len(updates)
  /\ ~ShouldSkip(updates[i])
  /\ ~updates[i].has_from
  /\ last_id' = updates[i].update_id
  /\ errored' = errored \cup {updates[i].update_id}
  /\ pc' = "failed"
  /\ UNCHANGED << store, clock, runs, last_update_id, updates, i,
                  message_data, pending_data, sha, processed, wlog,
                  imgFailed, faults, fetchErr, stored, external >>

\* run() loop body for a kept update whose message has no "from" object:
\* process_message raises KeyError while it builds the record (before any
\* photo is handled); the per-message except logs it and the loop goes on.
NormalizeFails ==
  /\ pc = "loop"
  /\ i <= Len(updates)
  /\ ~ShouldSkip(updates[i])
  /\ ~updates[i].has_from
  /\ last_id' = updates[i].update_id
  /\ errored' = errored \cup {updates[i].update_id}
  /\ i' = i + 1
  /\ UNCHANGED << store, clock, runs, pc, last_update_id, updates,
                  message_data, pending_data, sha, processed, wlog,
                  imgFailed, faults, fetchErr, stored, external >>

\* run() loop body for a kept update: process_message, with _process_image
\* (getFile, download, upload) when the message has a photo.  The upload is
\* a PUT without sha, which GitHub rejects when the path already exists
\* (outcome "upload_fail").
ProcessMessage ==
  /\ pc = "loop"
  /\ i <= Len(updates)
  /\ ~ShouldSkip(updates[i])
  /\ updates[i].has_from
  /\ LET m == updates[i]
         path == ImagePath(MessageId(m), m.photo[Len(m.photo)])
     IN  /\ last_id' = m.update_id
         /\ IF m.photo = <<>>
            THEN /\ message_data' = process_message(m, clock, "none")
                 /\ UNCHANGED << imageStore, wlog, imgFailed >>
            ELSE \E outcome \in ImageOutcomes :
                   /\ outcome = "ok" => path \notin imageStore
                   /\ message_data' = process_message(m, clock, outcome)
                   /\ IF outcome = "ok"
                      THEN /\ imageStore' = imageStore \cup {path}
                           /\ wlog' = Append(wlog, "image")
                           /\ UNCHANGED imgFailed
                      ELSE /\ imgFailed' = imgFailed \cup {m.update_id}
                           /\ UNCHANGED << imageStore, wlog >>
  /\ pc' = "q_read"
  /\ UNCHANGED << queueDoc, ckptDoc, clock, runs, last_update_id, updates, i,
                  pending_data, sha, processed, faults, fetchErr, errored,
                  stored, external >>

\* add_to_pending_queue: read the document (None => new structure) and
\* append the record to the local copy.
ReadQueue ==
  /\ pc = "q_read"
  /\ \E fail \in BOOLEAN :
       /\ pending_data' =
            Append(Messages(_github_get_file(queueDoc, fail)), message_data)
       /\ faults' = (faults \/ (fail /\ queueDoc.exists))
  /\ pc' = "q_sha"
  /\ UNCHANGED << store, clock, runs, last_update_id, updates, i, last_id,
                  message_data, sha, processed, wlog, imgFailed, fetchErr,
                  errored, stored, external >>

\* _github_create_or_update_file("data/pending-messages.json"): GET the sha.
GetQueueSha ==
  /\ pc = "q_sha"
  /\ \E fail \in BOOLEAN :
       /\ sha' = github_current_sha(queueDoc, fail)
       /\ faults' = (faults \/ (fail /\ queueDoc.exists))
  /\ pc' = "q_put"
  /\ UNCHANGED << store, clock, runs, last_update_id, updates, i, last_id,
                  message_data, pending_data, processed, wlog, imgFailed,
                  fetchErr, errored, stored, external >>

\* PutQueue that goes back to the read whenever the PUT raises, with no
\* bound on the attempts.
PutQueue_Retries ==
  /\ pc = "q_put"
  /\ \E outcome \in PutOutcomes :
       LET res == github_put(queueDoc, sha, outcome)
       IN  IF res = "raised"
           THEN /\ pc' = "q_read"
                /\ faults' = TRUE
                /\ UNCHANGED << queueDoc, wlog, stored, processed, i >>
           ELSE /\ pc' = "loop"
                /\ i' = i + 1
                /\ processed' = Append(processed, updates[i].update_id)
                /\ IF res = "stored"
                   THEN /\ queueDoc' = QueueFile(pending_data)
                        /\ wlog' = Append(wlog, "queue")
                        /\ stored' = stored \cup {updates[i].update_id}
                        /\ UNCHANGED faults
                   ELSE /\ faults' = TRUE
                        /\ UNCHANGED << queueDoc, wlog, stored >>
  /\ message_data' = IF pc' = "q_read" THEN message_data ELSE NoMessage
  /\ pending_data' = <<>>
  /\ sha' = NoSha
  /\ UNCHANGED << ckptDoc, imageStore, clock, runs, last_update_id, updates,
                  last_id, imgFailed, fetchErr, errored, external >>

\* _github_create_or_update_file("data/pending-messages.json"): the PUT.  A
\* PUT that raises lands in run()'s per-message except, which logs and goes
\* on with the next update; otherwise processed_count is incremented.
PutQueue ==
  /\ pc = "q_put"
  /\ \E outcome \in PutOutcomes :
       LET res == github_put(queueDoc, sha, outcome)
       IN  /\ IF res = "stored"
              THEN /\ queueDoc' = QueueFile(pending_data)
                   /\ wlog' = Append(wlog, "queue")
                   /\ stored' = stored \cup {updates[i].update_id}
                   /\ UNCHANGED faults
              ELSE /\ faults' = TRUE
                   /\ UNCHANGED << queueDoc, wlog, stored >>
           /\ IF res = "raised"
              THEN /\ errored' = errored \cup {updates[i].update_id}
                   /\ UNCHANGED processed
              ELSE /\ processed' = Append(processed, updates[i].update_id)
                   /\ UNCHANGED errored
  /\ i' = i + 1
  /\ pc' = "loop"
  /\ message_data' = NoMessage
  /\ pending_data' = <<>>
  /\ sha' = NoSha
  /\ UNCHANGED << ckptDoc, imageStore, clock, runs, last_update_id, updates,
                  last_id, imgFailed, fetchErr, external >>

\* run() after the loop: save the checkpoint only if last_id moved past the
\* value loaded by the constructor.
FinishLoop ==
  /\ pc = "loop"
  /\ i > Len(updates)
  /\ pc' = IF last_id > last_update_id THEN "c_sha" ELSE "done"
  /\ UNCHANGED << store, clock, runs, locals, hist, external >>

\* _save_last_update_id: GET the sha of data/last-update-id.json.
GetCkptSha ==
  /\ pc = "c_sha"
  /\ \E fail \in BOOLEAN :
       /\ sha' = github_current_sha(ckptDoc, fail)
       /\ faults' = (faults \/ (fail /\ ckptDoc.exists))
  /\ pc' = "c_put"
  /\ UNCHANGED << store, clock, runs, last_update_id, updates, i, last_id,
                  message_data, pending_data, processed, wlog, imgFailed,
                  fetchErr, errored, stored, external >>

\* PutCkpt without the try of _save_last_update_id: a failed save reaches
\* run()'s outer handler and the process exits with status 1.
PutCkpt_FailureAborts ==
  /\ pc = "c_put"
  /\ \E outcome \in PutOutcomes :
       IF github_put(ckptDoc, sha, outcome) = "stored"
       THEN /\ ckptDoc' = CkptFile(last_id)
            /\ wlog' = Append(wlog, "ckpt")
            /\ pc' = "done"
            /\ UNCHANGED faults
       ELSE /\ faults' = TRUE
            /\ pc' = "failed"
            /\ UNCHANGED << ckptDoc, wlog >>
  /\ sha' = NoSha
  /\ UNCHANGED << queueDoc, imageStore, clock, runs, last_update_id, updates,
                  i, last_id, message_data, pending_data, processed,
                  imgFailed, fetchErr, errored, stored, external >>

\* _save_last_update_id: the PUT; a failure is caught and logged, and run()
\* prints its summary and returns normally.
PutCkpt ==
  /\ pc = "c_put"
  /\ \E outcome \in PutOutcomes :
       IF github_put(ckptDoc, sha, outcome) = "stored"
       THEN /\ ckptDoc' = CkptFile(last_id)
            /\ wlog' = Append(wlog, "ckpt")
            /\ UNCHANGED faults
       ELSE /\ faults' = TRUE
            /\ UNCHANGED << ckptDoc, wlog >>
  /\ pc' = "done"
  /\ sha' = NoSha
  /\ UNCHANGED << queueDoc, imageStore, clock, runs, last_update_id, updates,
                  i, last_id, message_data, pending_data, processed,
                  imgFailed, fetchErr, errored, stored, external >>

\* The process is killed in the middle of a run (job timeout, runner loss):
\* its memory is gone, the repository stays as it is.
Crash ==
  /\ InRun
  /\ pc' = "crashed"
  /\ last_update_id' = 0
  /\ updates' = <<>>
  /\ i' = 1
  /\ last_id' = 0
  /\ message_data' = NoMessage
  /\ pending_data' = <<>>
  /\ sha' = NoSha
  /\ processed' = <<>>
  /\ imgFailed' = {}
  /\ faults' = FALSE
  /\ wlog' = <<>>
  /\ errored' = {}
  /\ stored' = {}
  /\ UNCHANGED << store, clock, runs, fetchErr, external >>

\* Another writer appends a record to the queue document.
ExternalWrite ==
  /\ Len(external) < MaxExternal
  /\ queueDoc' =
       QueueFile(Append(Messages(queueDoc), ExtRecord(Len(external) + 1)))
  /\ external' = Append(external, pc \in {"q_sha", "q_put"})
  /\ UNCHANGED << ckptDoc, imageStore, clock, runs, pc, locals, hist >>

Next ==
  \/ Load
  \/ Fetch
  \/ FetchFail
  \/ SkipMessage
  \/ NormalizeFails
  \/ ProcessMessage
  \/ ReadQueue
  \/ GetQueueSha
  \/ PutQueue
  \/ FinishLoop
  \/ GetCkptSha
  \/ PutCkpt
  \/ Crash
  \/ ExternalWrite

\* The steps run() itself takes, from fetch_updates to its return or exit.
RunStep ==
  \/ Fetch
  \/ FetchFail
  \/ SkipMessage
  \/ NormalizeFails
  \/ ProcessMessage
  \/ ReadQueue
  \/ GetQueueSha
  \/ PutQueue
  \/ FinishLoop
  \/ GetCkptSha
  \/ PutCkpt

Spec == Init /\ [][Next]_vars

\* --------------------------------------------- batches in any listing order
\* run() iterates over the list getUpdates returned as it is, without sorting
\* it.  Under this specification the source may list the updates of a batch
\* in any order.
Orderings(batch) ==
  LET n == Len(batch)
      perms == {f \in [1..n -> 1..n] : \A a, b \in 1..n : a # b => f[a] # f[b]}
  IN  {[k \in 1..n |-> batch[f[k]]] : f \in perms}

FetchAnyOrder ==
  /\ pc = "fetch"
  /\ \E batch \in Batches(last_update_id + 1) :
       \E listed \in Orderings(batch) :
         /\ updates' = listed
         /\ pc' = AfterFetch(listed)
  /\ last_id' = last_update_id
  /\ UNCHANGED << store, clock, runs, last_update_id, i, message_data,
                  pending_data, sha, processed, hist, external >>

NextAnyOrder ==
  \/ Load
  \/ FetchAnyOrder
  \/ FetchFail
  \/ SkipMessage
  \/ NormalizeFails
  \/ ProcessMessage
  \/ ReadQueue
  \/ GetQueueSha
  \/ PutQueue
  \/ FinishLoop
  \/ GetCkptSha
  \/ PutCkpt
  \/ Crash
  \/ ExternalWrite

SpecAnyOrder == Init /\ [][NextAnyOrder]_vars

\* ------------------------------------------- the constructor on any checkpoint
\* The checkpoint files a process may find when it starts: none, one that
\* does not parse, or one an earlier run saved.
CkptInputs ==
  {NoDoc, GarbageFile} \cup
  {CkptFile(Updates[k].update_id) : k \in 1..Len(Updates)}

InitLoad ==
  /\ queueDoc = NoDoc
  /\ ckptDoc \in CkptInputs
  /\ imageStore = {}
  /\ clock = 0
  /\ runs = 0
  /\ pc = "idle"
  /\ last_update_id = 0
  /\ updates = <<>>
  /\ i = 1
  /\ last_id = 0
  /\ message_data = NoMessage
  /\ pending_data = <<>>
  /\ sha = NoSha
  /\ processed = <<>>
  /\ wlog = <<>>
  /\ imgFailed = {}
  /\ faults = FALSE
  /\ fetchErr = FALSE
  /\ errored = {}
  /\ stored = {}
  /\ external = <<>>

\* Constructor and fetch only: __init__ and the first statement of run().
NextLoad ==
  \/ Load
  \/ Fetch
  \/ FetchFail

SpecLoad == InitLoad /\ [][NextLoad]_vars

\* ================================================================== claims
CkptValue == IF Parses(ckptDoc) THEN ckptDoc.last_update_id ELSE 0

QueueMessages == Messages(queueDoc)

InQueue(id) == \E k \in 1..Len(QueueMessages) : QueueMessages[k].id = id

Wrote(path) == \E k \in 1..Len(wlog) : wlog[k] = path

IsEmptyMessage(m) == m.text = "" /\ m.caption = "" /\ m.photo = <<>>

\* C1 (as claimed): at-least-once delivery: every kept (non-bot, non-empty)
\* message whose update_id is at or below the stored checkpoint is present
\* in the queue document, i.e. the checkpoint never moves past a message
\* whose queue write failed.
C1_AtLeastOnce ==
  \A k \in 1..Len(Updates) :
    (~ShouldSkip(Updates[k]) /\ Updates[k].update_id <= CkptValue)
      => InQueue(MessageId(Updates[k]))

\* C2 (as claimed): idempotent re-ingestion: while the stored checkpoint has
\* not advanced (so every batch ingested so far is re-fetched by the next
\* run), the queue document holds no two records with the same derived id.
C2_NoDuplicateIds ==
  CkptValue = 0 =>
    \A a, b \in 1..Len(QueueMessages) :
      a # b => QueueMessages[a].id # QueueMessages[b].id

\* C3 (as claimed): no lost update: a record another writer added between a
\* run's read of the queue document and its PUT is still in the document
\* afterwards.
C3_NoLostUpdate ==
  \A k \in 1..Len(external) :
    external[k] => InQueue(ExtRecord(k).id)

\* C4 (as claimed): the stored last_update_id never decreases, whatever the
\* load returned and whatever batch was fetched.
C4_CheckpointMonotone == [][CkptValue' >= CkptValue]_vars

InAppend == pc \in {"q_read", "q_sha", "q_put"}

\* C5: a message with neither text, caption nor photo never appears in the
\* queue document and no queue read or write is performed for it, and the
\* checkpoint a run saves is at or past its update_id (a run whose GitHub
\* requests all succeed does save one).
C5_EmptyMessageSkipped ==
  /\ \A k \in 1..Len(Updates) :
       IsEmptyMessage(Updates[k]) => ~InQueue(MessageId(Updates[k]))
  /\ InAppend => ~IsEmptyMessage(updates[i])
  /\ \A j \in 1..Len(updates) :
       (pc = "done" /\ IsEmptyMessage(updates[j])) =>
         /\ ~faults => Wrote("ckpt")
         /\ Wrote("ckpt") => CkptValue >= updates[j].update_id

C5_Witness ==
  /\ pc = "done"
  /\ \E j \in 1..Len(updates) :
       IsEmptyMessage(updates[j]) /\ CkptValue = updates[j].update_id
  /\ Wrote("ckpt")
  /\ Wrote("queue")

\* C6: a bot-authored message is never enqueued; a run whose batch is the
\* single bot-authored update 102, over a queue of one record, writes
\* neither the queue document nor an image, and (its GitHub requests
\* succeeding) writes exactly the checkpoint, which becomes 102.
C6_BotMessageSkipped ==
  /\ \A k \in 1..Len(Updates) :
       Updates[k].is_bot => ~InQueue(MessageId(Updates[k]))
  /\ InAppend => ~updates[i].is_bot
  /\ (pc = "done" /\ Len(updates) = 1 /\ updates[1].is_bot) =>
       /\ ~Wrote("queue")
       /\ ~Wrote("image")
       /\ ~faults => (wlog = << "ckpt" >> /\ CkptValue = updates[1].update_id)

C6_Witness ==
  /\ pc = "done"
  /\ Len(updates) = 1
  /\ updates[1].is_bot
  /\ updates[1].update_id = 102
  /\ Len(QueueMessages) = 1
  /\ ~faults
  /\ CkptValue = 102

\* The record of message m with no attachment, built at wall-clock `now`.
TextOnly(m, now) == process_message(m, now, "getfile_fail")

\* C7 (as claimed): attachment failure never blocks ingestion: when getFile,
\* the download or the upload of the photo fails (the photo is not stored),
\* the record handed to the queue is the caption-only record with no
\* images; the run does not fail; and a run whose queue and checkpoint
\* requests succeed has appended that record and saved a checkpoint at or
\* past the message's update_id.
C7_AttachmentFailureTolerated ==
  /\ (InAppend /\ updates[i].update_id \in imgFailed) =>
       /\ message_data = TextOnly(updates[i], clock)
       /\ message_data.images = <<>>
       /\ message_data.content = updates[i].caption
  /\ imgFailed # {} => pc # "failed"
  /\ \A j \in 1..Len(updates) :
       (pc = "done" /\ ~faults /\ updates[j].update_id \in imgFailed) =>
         /\ \E k \in 1..Len(processed) : processed[k] = updates[j].update_id
         /\ \E k \in 1..Len(QueueMessages) :
              QueueMessages[k] = TextOnly(updates[j], clock)
         /\ CkptValue >= updates[j].update_id

\* C8: an empty batch is a no-op: the run never enters the loop or the
\* checkpoint save with it and does not fail (only a getUpdates error gives
\* the failure status); it ends with success having written nothing, and
\* the step that ends it leaves the checkpoint document, the queue document
\* and the images exactly as they were.
C8_EmptyBatchNoOp ==
  /\ []((InRun /\ pc # "fetch") => updates # <<>>)
  /\ [](pc = "failed" => fetchErr)
  /\ []((pc = "done" /\ updates = <<>>) => wlog = <<>>)
  /\ [][(pc = "fetch" /\ pc' = "done") => UNCHANGED store]_vars

C8_Witness ==
  /\ pc = "done"
  /\ updates = <<>>
  /\ wlog = <<>>
  /\ ckptDoc.exists
  /\ queueDoc.exists

\* C9: a failed getUpdates aborts the run with a failure status, and the run
\* has written neither the checkpoint document nor the queue document.
C9_FetchFailureAborts ==
  /\ [](fetchErr => (pc = "failed" /\ wlog = <<>>))
  /\ [][(fetchErr' /\ ~fetchErr) => UNCHANGED store]_vars

C9_Witness ==
  /\ pc = "failed"
  /\ fetchErr
  /\ ckptDoc.exists
  /\ queueDoc.exists

\* C10 (as claimed): normalisation is deterministic: two records built from
\* the same raw message without photo, at whatever processing times, agree
\* on the id and on every other field.
C10_NormalizeDeterministic ==
  \A a, b \in 1..Len(QueueMessages) :
    (/\ QueueMessages[a].id = QueueMessages[b].id
     /\ \E k \in 1..Len(Updates) :
          /\ Updates[k].photo = <<>>
          /\ MessageId(Updates[k]) = QueueMessages[a].id)
      => QueueMessages[a] = QueueMessages[b]

\* C11: first run: from an empty store (nothing stored, loaded checkpoint
\* 0, no other writer) a run whose batch is the single human text message
\* 101 and whose GitHub requests all succeed ends with a queue document of
\* exactly one record (content = the text, status pending, no images) and a
\* stored checkpoint of 101.
C11_FirstRunScenario ==
  (/\ pc = "done" /\ runs = 1 /\ external = <<>> /\ ~faults
   /\ last_update_id = 0
   /\ Len(updates) = 1 /\ updates[1].update_id = 101)
  => /\ queueDoc.exists
     /\ Len(QueueMessages) = 1
     /\ QueueMessages[1].id = MessageId(updates[1])
     /\ QueueMessages[1].content = updates[1].text
     /\ QueueMessages[1].status = "pending"
     /\ QueueMessages[1].images = <<>>
     /\ CkptValue = 101
     /\ wlog = << "queue", "ckpt" >>

C11_Witness ==
  /\ pc = "done" /\ runs = 1 /\ external = <<>> /\ ~faults
  /\ last_update_id = 0
  /\ Len(updates) = 1 /\ updates[1].update_id = 101
  /\ updates[1].text = "Hello #blogpost" /\ updates[1].photo = <<>>
  /\ ~updates[1].is_bot
  /\ Len(QueueMessages) = 1
  /\ ckptDoc = CkptFile(101)

\* The sha held at the PUT of the queue document is not the stored file's,
\* because another writer changed the file after the run fetched the sha.
QueueConflict ==
  /\ pc = "q_put"
  /\ external # <<>> /\ external[Len(external)]
  /\ sha # github_current_sha(queueDoc, FALSE)

\* C12 (as claimed): bounded retry on conflict: when the PUT of the queue
\* document is rejected because the document changed since it was read, the
\* run goes back to reading the document (and appends and PUTs again).
C12_RetryOnConflict ==
  [][(QueueConflict /\ pc' \notin {"q_put", "crashed"}) => pc' = "q_read"]_vars

IsPrefix(a, b) == Len(a) <= Len(b) /\ SubSeq(b, 1, Len(a)) = a

\* C13 (as claimed): the queue is append-only under ingestion: every write
\* of the queue document by add_to_pending_queue keeps the stored records
\* as a prefix of the new document, whose last record is the one of the
\* message at hand (so a run's records follow the batch order).  Stated for
\* executions in which no other writer touches the document.
C13_AppendOnly ==
  [][(pc = "q_put" /\ queueDoc' # queueDoc /\ external' = <<>>)
       => /\ IsPrefix(QueueMessages, QueueMessages')
          /\ QueueMessages'[Len(QueueMessages')] = message_data]_vars

\* Number of writes of the queue document the current run has made.
QueueWrites == Cardinality({k \in 1..Len(wlog) : wlog[k] = "queue"})

\* C14 (as claimed): batched merge: a run writes the queue document at most
\* once, and only when no kept message of the batch is still waiting to be
\* normalised.
C14_BatchedMerge ==
  /\ QueueWrites <= 1
  /\ (InRun /\ QueueWrites > 0) =>
       \A j \in i..Len(updates) : ShouldSkip(updates[j])

\* Highest update_id of a non-empty batch.
MaxUpdateId(batch) ==
  CHOOSE m \in {batch[k].update_id : k \in 1..Len(batch)} :
    \A k \in 1..Len(batch) : batch[k].update_id <= m

\* C15 (as claimed): the checkpoint a run saves is the highest update_id of
\* the fetched batch, skipped and kept updates alike, in whatever order the
\* batch lists them.
C15_SavesHighest ==
  (pc = "done" /\ Wrote("ckpt")) => CkptValue = MaxUpdateId(updates)

\* Update ids counted in processed_count.
Processed == {processed[k] : k \in 1..Len(processed)}

\* C16: per-message failure isolation: a message whose normalisation or
\* queue write raised is not written to the queue by the run and is not
\* counted; the run does not abort; once the loop is over every kept
\* message of the batch has either raised itself or gone through
\* add_to_pending_queue to the end; the failing message's update_id is
\* covered by the value handed to the checkpoint save, and by the stored
\* checkpoint when the save succeeds.
C16_FailureIsolation ==
  /\ errored \cap stored = {}
  /\ errored \cap Processed = {}
  /\ errored # {} => pc # "failed"
  /\ (pc \in {"c_sha", "c_put", "done"} /\ errored # {}) =>
       /\ \A j \in 1..Len(updates) :
            ~ShouldSkip(updates[j]) =>
              updates[j].update_id \in errored \cup Processed
       /\ \A u \in errored : last_id >= u
  /\ (pc = "done" /\ Wrote("ckpt")) => \A u \in errored : CkptValue >= u
  /\ (pc = "done" /\ errored # {} /\ ~Wrote("ckpt")) => faults

C16_Witness ==
  /\ pc = "done"
  /\ Wrote("ckpt")
  /\ \E u \in errored : \E v \in stored :
       /\ u < v
       /\ CkptValue >= v
       /\ \E k \in 1..Len(QueueMessages) :
            \E j \in 1..Len(updates) :
              /\ updates[j].update_id = v
              /\ QueueMessages[k].id = MessageId(updates[j])

\* C17 (as claimed): the constructor loads the stored last_update_id whenever
\* the checkpoint document exists and parses, and 0 otherwise.
C17_LoadAsClaimed ==
  pc = "fetch" => last_update_id = CkptValue

\* C17 (amended): the load never fails and yields the stored last_update_id
\* when the GET of the checkpoint document succeeds and the body parses, 0
\* when the document is absent, does not parse, or the GET fails; the batch
\* then fetched starts at the first waiting update past the loaded value.
C17_LoadNeverFails ==
  /\ (Terminal /\ runs < MaxRuns) => ENABLED Load
  /\ runs > 0 => pc # "idle"
  /\ (pc = "fetch" /\ ~faults) => last_update_id = CkptValue
  /\ (pc = "fetch" /\ faults) => last_update_id = 0
  /\ (pc = "fetch" /\ ~Parses(ckptDoc)) => last_update_id = 0
  /\ updates # <<>> =>
       /\ updates[1].update_id >= last_update_id + 1
       /\ \A k \in 1..Len(Updates) :
            Updates[k].update_id >= last_update_id + 1
              => updates[1].update_id <= Updates[k].update_id

C17_Witness ==
  /\ pc = "loop"
  /\ Parses(ckptDoc) /\ CkptValue > 0
  /\ faults
  /\ last_update_id = 0
  /\ updates[1].update_id = 101

\* C18: the checkpoint is saved last: a run writes the checkpoint document
\* at most once, after all its queue and image writes and as the last step
\* before it ends; the stored checkpoint changes in that step only, so a run
\* killed earlier leaves it as it was.
C18_CheckpointSavedLast ==
  /\ [](\A k \in 1..Len(wlog) : wlog[k] = "ckpt" => k = Len(wlog))
  /\ [](Wrote("ckpt") => pc = "done")
  /\ [][ckptDoc' # ckptDoc => (pc = "c_put" /\ pc' = "done")]_vars
  /\ [][pc' = "crashed" => ckptDoc' = ckptDoc]_vars

C18_Witness ==
  /\ pc = "done"
  /\ Wrote("image")
  /\ Wrote("queue")
  /\ Len(wlog) >= 3
  /\ wlog[Len(wlog)] = "ckpt"
  /\ CkptValue = last_id

\* Requests and loop steps the run may still take before it ends: at most
\* four per update left in the batch (image upload within the normalising
\* step, queue GET, sha GET, PUT), then the end of the loop and the two
\* requests of the checkpoint save.
Rank ==
  CASE pc = "fetch"  -> 4 * MaxBatch + 4
    [] pc = "loop"   -> 4 * (Len(updates) - i + 1) + 3
    [] pc = "q_read" -> 4 * (Len(updates) - i) + 6
    [] pc = "q_sha"  -> 4 * (Len(updates) - i) + 5
    [] pc = "q_put"  -> 4 * (Len(updates) - i) + 4
    [] pc = "c_sha"  -> 2
    [] pc = "c_put"  -> 1
    [] OTHER         -> 0

\* C19: every run terminates: a run in progress can always take a step,
\* every step it takes lowers Rank, Rank is a natural number bounded by the
\* batch size, and Rank 0 is exactly the terminal positions (returned,
\* exited with status 1, or killed).
C19_RunTerminates ==
  /\ [](Rank \in 0..(4 * MaxBatch + 4))
  /\ [](Rank = 0 <=> Terminal)
  /\ [](InRun => ENABLED RunStep)
  /\ [](pc \in {"loop", "q_read", "q_sha", "q_put"} =>
         Rank <= 4 * Len(updates) + 3)
  /\ [][(InRun /\ << pc, i >>' # << pc, i >>) => Rank' < Rank]_vars
  /\ [][(InRun /\ << pc, i >>' = << pc, i >>) => locals' = locals]_vars

C19_Witness ==
  /\ pc = "done"
  /\ Len(updates) = MaxBatch
  /\ faults
  /\ errored # {}
  /\ stored # {}

\* C20: a failed checkpoint save is swallowed: whatever the outcome of the
\* save's PUT, the run ends with success and the queue document is left as
\* the run wrote it; when the save did not take effect the stored checkpoint
\* is unchanged, and a process started next loads that stored value (or 0)
\* and fetches from there again.
C20_FailedSaveSwallowed ==
  /\ [][(pc = "c_put" /\ pc' \notin {"c_put", "crashed"}) =>
          /\ pc' = "done"
          /\ queueDoc' = queueDoc
          /\ imageStore' = imageStore
          /\ (~Wrote("ckpt"))' => ckptDoc' = ckptDoc]_vars
  /\ [][(pc = "done" /\ ~Wrote("ckpt") /\ pc' = "fetch") =>
          /\ store' = store
          /\ last_update_id' \in {CkptValue, 0}]_vars
  /\ [](pc = "failed" => wlog = <<>>)

C20_Witness ==
  /\ pc = "done"
  /\ runs = 1 /\ external = <<>>
  /\ last_id > last_update_id
  /\ ~Wrote("ckpt")
  /\ ckptDoc = NoDoc
  /\ stored # {}
  /\ \A j \in 1..Len(updates) :
       updates[j].update_id \in stored => InQueue(MessageId(updates[j]))

====
